---- MODULE Spec2Model ----
(***************************************************************************)
(* Model of app.py, the Streamlit IPO tracker: the Screener.in table       *)
(* fetchers and their TTL caches, the date parsers, the three views of one *)
(* script run, and the SEBI document locator.                              *)
(*                                                                         *)
(* Python strings are sequences of one-character strings, so that          *)
(* substring tests, splitting, stripping and strptime are computed the way *)
(* the code computes them.  A missing cell (NaN / None) is Null.           *)
(***************************************************************************)
EXTENDS Integers, Sequences, FiniteSets, TLC

(***************************************************************************)
(* Strings                                                                 *)
(***************************************************************************)

\* NaN / None in a scraped cell
Null == <<"<null>">>

UpperChars == <<"A", "B", "C", "D", "E", "F", "G", "H", "I", "J", "K", "L", "M", "N", "O", "P", "Q", "R", "S", "T", "U", "V", "W", "X", "Y", "Z">>

LowerChars == <<"a", "b", "c", "d", "e", "f", "g", "h", "i", "j", "k", "l", "m", "n", "o", "p", "q", "r", "s", "t", "u", "v", "w", "x", "y", "z">>

DigitChars == <<"0", "1", "2", "3", "4", "5", "6", "7", "8", "9">>

IsDigit(c) == \E i \in 1..10 : DigitChars[i] = c

DigitVal(c) == (CHOOSE i \in 1..10 : DigitChars[i] = c) - 1

\* str.lower() on one character
LowerChar(c) ==
  IF \E i \in 1..26 : UpperChars[i] = c
  THEN LowerChars[CHOOSE i \in 1..26 : UpperChars[i] = c]
  ELSE c

\* str.lower()
Lower(s) == [i \in 1..Len(s) |-> LowerChar(s[i])]

\* s[from:] starts with pat
MatchAt(s, pat, from) ==
  /\ from + Len(pat) - 1 <= Len(s)
  /\ \A k \in 1..Len(pat) : s[from + k - 1] = pat[k]

\* pat in s
Contains(s, pat) == \E i \in 1..(Len(s) + 1) : MatchAt(s, pat, i)

\* s.startswith(pat)
StartsWith(s, pat) == MatchAt(s, pat, 1)

\* the least element of a non-empty set of positions, 0 for the empty set
LeastOf(S) == IF S = {} THEN 0 ELSE CHOOSE i \in S : \A j \in S : i <= j

\* str.find(pat) + 1: the position of the first occurrence of pat in s, 0 when
\* there is none
FindFirst(s, pat) == LeastOf({i \in 1..(Len(s) + 1) : MatchAt(s, pat, i)})

\* str.strip(): the only whitespace of the alphabet is the blank
Strip(s) ==
  IF \A i \in 1..Len(s) : s[i] = " "
  THEN << >>
  ELSE SubSeq(s,
              CHOOSE i \in 1..Len(s) : s[i] # " " /\ \A j \in 1..(i - 1) : s[j] = " ",
              CHOOSE i \in 1..Len(s) : s[i] # " " /\ \A j \in (i + 1)..Len(s) : s[j] = " ")

RECURSIVE Replace(_, _)
\* str.replace(pat, ""): every non-overlapping occurrence, left to right
Replace(s, pat) ==
  IF s = << >> THEN << >>
  ELSE IF MatchAt(s, pat, 1)
       THEN Replace(SubSeq(s, Len(pat) + 1, Len(s)), pat)
       ELSE <<s[1]>> \o Replace(Tail(s), pat)

RECURSIVE SplitOn(_, _)
\* s split at position p, where its first sep is (0: there is none)
SplitAt(s, sep, p) ==
  IF p = 0 THEN <<s>>
  ELSE <<SubSeq(s, 1, p - 1)>> \o SplitOn(SubSeq(s, p + 1, Len(s)), sep)

\* str.split(sep) for a one-character sep: empty fields are kept
SplitOn(s, sep) == SplitAt(s, sep, FindFirst(s, <<sep>>))

\* str.split(): split on runs of whitespace, no empty fields
SplitWs(s) == SelectSeq(SplitOn(s, " "), LAMBDA t : t # << >>)

RECURSIVE JoinWs(_)
\* " ".join(parts)
JoinWs(parts) ==
  IF parts = << >> THEN << >>
  ELSE IF Len(parts) = 1 THEN parts[1]
       ELSE parts[1] \o <<" ">> \o JoinWs(Tail(parts))

(***************************************************************************)
(* Dates: datetime.date as a record, None as NoDate                        *)
(***************************************************************************)

NoDate == [y |-> 0, m |-> 0, d |-> 0]

\* isinstance(x, dt.date)
IsDate(x) == x # NoDate

MkDate(y, m, d) == [y |-> y, m |-> m, d |-> d]

IsLeap(y) == y % 4 = 0 /\ (y % 100 # 0 \/ y % 400 = 0)

DaysInMonth(y, m) ==
  IF m = 2 THEN (IF IsLeap(y) THEN 29 ELSE 28)
  ELSE IF m \in {4, 6, 9, 11} THEN 30 ELSE 31

\* what the datetime constructor accepts (MINYEAR..MAXYEAR, day in month)
ValidDate(y, m, d) ==
  /\ y \in 1..9999
  /\ m \in 1..12
  /\ d \in 1..DaysInMonth(y, m)

\* date.__le__ / date.__lt__: comparison of (year, month, day)
DateLT(a, b) ==
  \/ a.y < b.y
  \/ a.y = b.y /\ a.m < b.m
  \/ a.y = b.y /\ a.m = b.m /\ a.d < b.d

DateLE(a, b) == a = b \/ DateLT(a, b)

\* _days_before_year(y)
DaysBeforeYear(y) ==
  (y - 1) * 365 + ((y - 1) \div 4) - ((y - 1) \div 100) + ((y - 1) \div 400)

\* _DAYS_BEFORE_MONTH, for a common year
DaysBeforeMonthTable == <<0, 31, 59, 90, 120, 151, 181, 212, 243, 273, 304, 334>>

\* _days_before_month(y, m)
DaysBeforeMonth(y, m) ==
  DaysBeforeMonthTable[m] + (IF m > 2 /\ IsLeap(y) THEN 1 ELSE 0)

\* date.toordinal()
ToOrdinal(t) == DaysBeforeYear(t.y) + DaysBeforeMonth(t.y, t.m) + t.d

\* date.fromordinal(n): _ord2ymd
FromOrdinal(n) ==
  LET n0   == n - 1
      n400 == n0 \div 146097
      r400 == n0 % 146097
      n100 == r400 \div 36524
      r100 == r400 % 36524
      n4   == r100 \div 1461
      r4   == r100 % 1461
      n1   == r4 \div 365
      r1   == r4 % 365
      year == n400 * 400 + 1 + n100 * 100 + n4 * 4 + n1
      leap == n1 = 3 /\ (n4 # 24 \/ n100 = 3)
      mEst == (r1 + 50) \div 32
      pEst == DaysBeforeMonthTable[mEst] + (IF mEst > 2 /\ leap THEN 1 ELSE 0)
      month == IF pEst > r1 THEN mEst - 1 ELSE mEst
      prec == DaysBeforeMonthTable[month] + (IF month > 2 /\ leap THEN 1 ELSE 0)
  IN IF n1 = 4 \/ n100 = 4 THEN MkDate(year - 1, 12, 31)
     ELSE MkDate(year, month, r1 - prec + 1)

\* date + timedelta(days=n), n may be negative
PlusDays(t, n) == FromOrdinal(ToOrdinal(t) + n)

\* the look-back of get_3_months_ago, in days
LookbackDays == 90

\* get_3_months_ago()
get_3_months_ago(today_) == PlusDays(today_, 0 - LookbackDays)

(***************************************************************************)
(* strptime                                                                *)
(***************************************************************************)

MonthAbbr ==
  << <<"j", "a", "n">>, <<"f", "e", "b">>, <<"m", "a", "r">>, <<"a", "p", "r">>, <<"m", "a", "y">>, <<"j", "u", "n">>,
     <<"j", "u", "l">>, <<"a", "u", "g">>, <<"s", "e", "p">>, <<"o", "c", "t">>, <<"n", "o", "v">>, <<"d", "e", "c">> >>

\* %b: an abbreviated month name, case-insensitive; 0 when tok is none
MonthOf(tok) == LeastOf({i \in 1..12 : MonthAbbr[i] = Lower(tok)})

AllDigits(tok) == tok # << >> /\ \A i \in 1..Len(tok) : IsDigit(tok[i])

RECURSIVE DigitsVal(_)
DigitsVal(tok) ==
  IF tok = << >> THEN 0
  ELSE 10 * DigitsVal(SubSeq(tok, 1, Len(tok) - 1)) + DigitVal(tok[Len(tok)])

\* %d: 3[0-1] | [1-2]\d | 0[1-9] | [1-9] | blank[1-9]; 0 when tok is none of them
DayOf(tok) ==
  IF AllDigits(tok) /\ Len(tok) \in 1..2 /\ DigitsVal(tok) \in 1..31
  THEN DigitsVal(tok)
  ELSE IF Len(tok) = 2 /\ tok[1] = " " /\ IsDigit(tok[2]) /\ tok[2] # "0"
       THEN DigitVal(tok[2]) ELSE 0

\* the text from its first field on: a %d at the start of the format also takes
\* one blank before a one-digit day
FromFirstField(text) ==
  IF Len(text) >= 3 /\ text[1] = " " /\ IsDigit(text[2]) /\ text[2] # "0"
     /\ text[3] = " "
  THEN Tail(text) ELSE text

\* the fields between the runs of blanks of t, none when t starts or ends blank
FieldsOf(t) ==
  IF t # << >> /\ t[1] # " " /\ t[Len(t)] # " " THEN SplitWs(t) ELSE << >>

\* %Y: exactly four digits; -1 when tok is not
YearOf(tok) ==
  IF AllDigits(tok) /\ Len(tok) = 4 THEN DigitsVal(tok) ELSE -1

\* the date of matched fields, NoDate for ValueError
DateOfFields(y, m, d) ==
  IF m # 0 /\ d # 0 /\ y # -1 /\ ValidDate(y, m, d) THEN MkDate(y, m, d) ELSE NoDate

\* the date of the fields <<day, month, year>>, NoDate when there are not three
DateOf3(p) ==
  IF Len(p) = 3 THEN DateOfFields(YearOf(p[3]), MonthOf(p[2]), DayOf(p[1])) ELSE NoDate

\* the date of the fields <<day, month>> in 1900, the default year of strptime
DateOf2(p) ==
  IF Len(p) = 2 THEN DateOfFields(1900, MonthOf(p[2]), DayOf(p[1])) ELSE NoDate

\* datetime.strptime(text, "%d %b %Y").date(): the blanks of the format match
\* runs of whitespace, the match must cover the whole text
Strptime_dbY(text) == DateOf3(FieldsOf(FromFirstField(text)))

\* datetime.strptime(text, "%d-%b-%Y").date()
Strptime_d_b_Y(text) == DateOf3(SplitOn(text, "-"))

\* datetime.strptime(text, "%d %b"): the year defaults to 1900
Strptime_db(text) == DateOf2(FieldsOf(FromFirstField(text)))

(***************************************************************************)
(* Generic helpers of app.py                                               *)
(***************************************************************************)

\* strip_ordinal_suffix: four chained str.replace calls
strip_ordinal_suffix(text) ==
  Replace(Replace(Replace(Replace(text, <<"s", "t">>), <<"n", "d">>), <<"r", "d">>), <<"t", "h">>)

\* int(tok) succeeds: an optional sign and decimal digits
IntParses(tok) ==
  \/ AllDigits(tok)
  \/ Len(tok) >= 2 /\ tok[1] \in {"-", "+"} /\ AllDigits(Tail(tok))

\* int(tok) where it succeeds
IntOf(tok) ==
  IF tok[1] = "-" THEN 0 - DigitsVal(Tail(tok))
  ELSE IF tok[1] = "+" THEN DigitsVal(Tail(tok))
  ELSE DigitsVal(tok)

\* the %Y field of str(y) for an int y: it matches only when y prints as four digits
YearOfInt(y) == IF y \in 1000..9999 THEN y ELSE -1

\* y of parse_day_month for the parts of the text: the given year or the current
\* one for two parts, int(parts[3]) or the current one for three
YearOfParts(parts, year, today_) ==
  IF Len(parts) = 2 THEN (IF year # 0 THEN year ELSE today_.y)
  ELSE IF IntParses(parts[3]) THEN IntOf(parts[3]) ELSE today_.y

\* parse_day_month after text.split()
DayMonthOfParts(parts, year, today_) ==
  IF Len(parts) \in {2, 3}
  THEN DateOfFields(YearOfInt(YearOfParts(parts, year, today_)),
                    MonthOf(parts[2]), DayOf(parts[1]))
  ELSE NoDate

\* parse_day_month(text, year): year = 0 stands for None; today_ is date.today()
parse_day_month(text, year, today_) ==
  IF text = Null THEN NoDate
  ELSE DayMonthOfParts(SplitWs(Strip(strip_ordinal_suffix(text))), year, today_)

\* the result of one format of parse_listing_date_screener: a year of 1900 is
\* replaced by the current year; NoDate when strptime or replace() raised
WithCurrentYear(dd, today_) ==
  IF dd.y = 1900
  THEN (IF ValidDate(today_.y, dd.m, dd.d) THEN MkDate(today_.y, dd.m, dd.d) ELSE NoDate)
  ELSE dd

\* the loop over the formats: the first that gives a date wins
FirstDate(f1, f2, f3) == IF IsDate(f1) THEN f1 ELSE IF IsDate(f2) THEN f2 ELSE f3

\* parse_listing_date_screener after text = str(val).strip().lower()
ListingDateOfText(text, today_) ==
  IF text = <<"t", "o", "d", "a", "y">> THEN today_
  ELSE IF text = <<"t", "o", "m", "o", "r", "r", "o", "w">> THEN PlusDays(today_, 1)
  ELSE IF text = <<"y", "e", "s", "t", "e", "r", "d", "a", "y">> THEN PlusDays(today_, 0 - 1)
  ELSE FirstDate(WithCurrentYear(Strptime_dbY(text), today_),
                 WithCurrentYear(Strptime_d_b_Y(text), today_),
                 WithCurrentYear(Strptime_db(text), today_))

\* parse_listing_date_screener(val)
parse_listing_date_screener(val, today_) ==
  IF val = Null THEN NoDate ELSE ListingDateOfText(Lower(Strip(val)), today_)

\* a segment of a header tuple that is kept: not None and not "nan"
IsSegment(x) == x # Null /\ Lower(Strip(x)) # <<"n", "a", "n">>

StripAll(seq) == [i \in 1..Len(seq) |-> Strip(seq[i])]

\* the flattened name of one MultiIndex header tuple
FlattenTuple(tup) == Strip(JoinWs(StripAll(SelectSeq(tup, IsSegment))))

\* the column names after the MultiIndex branch of normalize_columns
FlatColumns(header) ==
  IF header.multi
  THEN [i \in 1..Len(header.cols) |-> FlattenTuple(header.cols[i])]
  ELSE header.cols

\* a variant of IsDroppedName for which either of "sr" and "no" is enough
IsDroppedNameEither(name) ==
  \/ Contains(name, <<"s", "r">>) \/ Contains(name, <<"n", "o">>)
  \/ StartsWith(name, <<"u", "n", "n", "a", "m", "e", "d">>)

\* the test on name = str(c).strip().lower() that puts a column in to_drop
IsDroppedName(name) ==
  \/ Contains(name, <<"s", "r">>) /\ Contains(name, <<"n", "o">>)
  \/ StartsWith(name, <<"u", "n", "n", "a", "m", "e", "d">>)

IsKeptColumn(c) == ~IsDroppedName(Lower(Strip(c)))

\* normalize_columns(df), as the column names of the result
normalize_columns(header) == SelectSeq(FlatColumns(header), IsKeptColumn)

(***************************************************************************)
(* State                                                                   *)
(***************************************************************************)

VARIABLES
  today,        \* dt.date.today()
  now,          \* the clock of st.cache_data, seconds since midnight of the first day
  upPage,       \* what UPCOMING_URL serves: [net, tables]
  recPage,      \* what RECENT_URL serves: [net, tables]
  cacheUpRaw,   \* st.cache_data entry of fetch_upcoming_raw
  cacheUpProc,  \* st.cache_data entry of fetch_upcoming_processed
  cacheRecRaw,  \* st.cache_data entry of fetch_recent_raw
  cacheRecProc, \* st.cache_data entry of fetch_recent_processed
  cachePast,    \* st.cache_data entry of fetch_past_last_3_months
  viewOngoing,  \* index labels of df_up[mask_ongoing]
  viewUpcoming, \* index labels of df_up[mask_upcoming]
  viewPast,     \* rows of df_past
  run,          \* how the last script run went: the exception raised, what each tab showed
  ticks,        \* how often the clock has advanced
  colsIn,       \* a header handed to normalize_columns
  colsOut,      \* the column names normalize_columns returned for it
  sebi,         \* what the SEBI listing serves for smid 11, 10 and 0
  company,      \* the company name given to get_best_sebi_ipo_doc
  pc,           \* where get_best_sebi_ipo_doc / render_ai_analysis stands
  requests,     \* the smid of every request sent so far, in order
  url,          \* the value get_best_sebi_ipo_doc returns, NoUrl for None
  shown,        \* the link render_ai_analysis presents
  parseIn,      \* a text handed to parse_day_month or parse_listing_date_screener
  parseOut      \* what the parser returned for it

screenerVars ==
  <<today, now, upPage, recPage, cacheUpRaw, cacheUpProc, cacheRecRaw,
    cacheRecProc, cachePast, viewOngoing, viewUpcoming, viewPast, run, ticks>>

columnVars == <<colsIn, colsOut>>

sebiVars == <<sebi, company, pc, requests, url, shown>>

parseVars == <<parseIn, parseOut>>

vars == <<screenerVars, columnVars, sebiVars, parseVars>>

(***************************************************************************)
(* Data frames and the st.cache_data entries                               *)
(***************************************************************************)

\* pd.DataFrame()
EmptyDF == [cols |-> << >>, rows |-> << >>]

\* df.empty
IsEmptyDF(df) == df.cols = << >> \/ df.rows = << >>

NoEntry == [full |-> FALSE, at |-> 0, val |-> EmptyDF]

\* ttl=600 of the Screener fetchers
CacheTTL == 600

\* an entry is served until ttl seconds have passed since it was stored
Fresh(entry, now_) == entry.full /\ now_ - entry.at < CacheTTL

Store(val, now_) == [full |-> TRUE, at |-> now_, val |-> val]

(***************************************************************************)
(* fetch_upcoming_raw / fetch_recent_raw                                   *)
(***************************************************************************)

ColName == <<"N", "a", "m", "e">>

ColPeriod == <<"S", "u", "b", "s", "c", "r", "i", "p", "t", "i", "o", "n", " ", "P", "e", "r", "i", "o", "d">>

ColListing == <<"L", "i", "s", "t", "i", "n", "g", " ", "D", "a", "t", "e">>

HasCol(cols, c) == \E i \in 1..Len(cols) : cols[i] = c

\* cols = [str(c).strip() for c in df.columns] after normalize_columns
StrippedColumns(header) == StripAll(normalize_columns(header))

\* the header test of fetch_upcoming_raw
UpcomingHeaderOk(cols) ==
  HasCol(cols, ColName) /\ HasCol(cols, ColPeriod) /\ HasCol(cols, ColListing)

\* the header test of fetch_recent_raw
RecentHeaderOk(cols) ==
  /\ HasCol(cols, ColName)
  /\ HasCol(cols, ColListing)
  /\ \E i \in 1..Len(cols) : Contains(cols[i], <<"I", "P", "O", " ", "M", "C", "a", "p">>)

\* pd.read_html raises when the page cannot be fetched or holds no table
ReadHtmlRaises(page) == page.net = "fail" \/ page.tables = << >>

\* a variant of FrameOf that takes the first table when no header passed
FrameOrFirstTable(tables, cols, k) ==
  IF k = 0 THEN [cols |-> cols[1], rows |-> tables[1].rows]
  ELSE [cols |-> cols[k], rows |-> tables[k].rows]

\* the frame of table k with the stripped column names, EmptyDF for k = 0
FrameOf(tables, cols, k) ==
  IF k = 0 THEN EmptyDF ELSE [cols |-> cols[k], rows |-> tables[k].rows]

\* the first table whose stripped column names pass the header test: the value
\* of target after the loop, EmptyDF when target stays None
FirstMatching(tables, cols, ok) ==
  FrameOf(tables, cols, LeastOf({k \in 1..Len(tables) : ok[k]}))

\* the stripped column names of every table of the page
ColumnsOf(tables) == [k \in 1..Len(tables) |-> StrippedColumns(tables[k].header)]

\* the loop of fetch_upcoming_raw
SelectUpcoming(tables, cols) ==
  FirstMatching(tables, cols, [k \in 1..Len(tables) |-> UpcomingHeaderOk(cols[k])])

\* the loop of fetch_recent_raw
SelectRecent(tables, cols) ==
  FirstMatching(tables, cols, [k \in 1..Len(tables) |-> RecentHeaderOk(cols[k])])

\* fetch_upcoming_raw(): [raised, val]
fetch_upcoming_raw(page) ==
  IF ReadHtmlRaises(page) THEN [raised |-> TRUE, val |-> EmptyDF]
  ELSE [raised |-> FALSE, val |-> SelectUpcoming(page.tables, ColumnsOf(page.tables))]

\* fetch_recent_raw(): [raised, val]
fetch_recent_raw(page) ==
  IF ReadHtmlRaises(page) THEN [raised |-> TRUE, val |-> EmptyDF]
  ELSE [raised |-> FALSE, val |-> SelectRecent(page.tables, ColumnsOf(page.tables))]

(***************************************************************************)
(* fetch_upcoming_processed                                                *)
(***************************************************************************)

\* str(cell): NaN prints as "nan"
StrOf(cell) == IF cell = Null THEN <<"n", "a", "n">> ELSE cell

\* df["Name"].str raises AttributeError unless the column holds a string
StrAccessorRaises(rows) == \A i \in 1..Len(rows) : rows[i].name = Null

\* ~df["Name"].str.contains("sme", case=False, na=False)
NotSme(row) == ~(row.name # Null /\ Contains(Lower(row.name), <<"s", "m", "e">>))

\* the columns kept by fetch_upcoming_processed, with the ones it adds
ProcessedColumns(cols) ==
  <<ColName, ColPeriod, ColListing>>
  \o (IF \E i \in 1..Len(cols) : Contains(Lower(cols[i]), <<"m", ".", "c", "a", "p">>)
      THEN << <<"M", ".", "C", "a", "p", " ", "C", "r">> >> ELSE << >>)
  \o << <<"P", "r", "i", "c", "e", " ", "b", "a", "n", "d">>, <<"_", "l", "i", "s", "t", "i", "n", "g", "_", "d", "a", "t", "e">>, <<"_", "s", "u", "b", "_", "s", "t", "a", "r", "t">>, <<"_", "s", "u", "b", "_", "e", "n", "d">> >>

\* start and end of a period with its first hyphen at position p
WindowSplit(sub_text, p, listing_year, today_) ==
  [start |-> parse_day_month(Strip(SubSeq(sub_text, 1, p - 1)), listing_year, today_),
   end   |-> parse_day_month(Strip(SubSeq(sub_text, p + 1, Len(sub_text))),
                             listing_year, today_)]

\* end = start
SameDay(s) == [start |-> s, end |-> s]

\* the body of the loop over the rows: [start, end] of one subscription period;
\* p is the position of the first hyphen (0: none), listing_year = 0 stands for None
WindowAt(sub_text, p, listing_year, today_) ==
  IF p # 0 THEN WindowSplit(sub_text, p, listing_year, today_)
  ELSE SameDay(parse_day_month(Strip(sub_text), listing_year, today_))

SubscriptionWindow(sub_text, listing_year, today_) ==
  WindowAt(sub_text, FindFirst(sub_text, <<"-">>), listing_year, today_)

\* a variant of ListingYear that never passes the listing year on
ListingYearIgnored(ld) == 0

\* listing_year: the year of the parsed listing date, None (0) without one
ListingYear(ld) == IF IsDate(ld) THEN ld.y ELSE 0

RowWith(row, ld, w) ==
  [name |-> row.name, period |-> row.period, listing |-> row.listing,
   ld |-> ld, start |-> w.start, end |-> w.end]

RowWithListing(row, ld, today_) ==
  RowWith(row, ld, SubscriptionWindow(StrOf(row.period), ListingYear(ld), today_))

\* one row of the frame fetch_upcoming_processed returns
ProcessedRow(row, today_) ==
  RowWithListing(row, parse_listing_date_screener(row.listing, today_), today_)

ProcessedRows(kept, today_) == [i \in 1..Len(kept) |-> ProcessedRow(kept[i], today_)]

\* fetch_upcoming_processed() on the frame fetch_upcoming_raw returned: [raised, val]
fetch_upcoming_processed(df, today_) ==
  IF IsEmptyDF(df) THEN [raised |-> FALSE, val |-> df]
  ELSE IF StrAccessorRaises(df.rows) THEN [raised |-> TRUE, val |-> EmptyDF]
  ELSE [raised |-> FALSE,
        val |-> [cols |-> ProcessedColumns(df.cols),
                 rows |-> ProcessedRows(SelectSeq(df.rows, NotSme), today_)]]

(***************************************************************************)
(* fetch_recent_processed / fetch_past_last_3_months                       *)
(***************************************************************************)

\* rename_map for sc = str(c).strip(): the name a column of the raw frame gets
RenamedStripped(c, sc) ==
  IF StartsWith(sc, <<"I", "P", "O", " ", "M", "C", "a", "p">>) THEN <<"I", "P", "O", " ", "M", "C", "a", "p", " ", "R", "s", ".", " ", "C", "r">>
  ELSE IF StartsWith(sc, <<"I", "P", "O", " ", "P", "r", "i", "c", "e">>) THEN <<"I", "P", "O", " ", "P", "r", "i", "c", "e">>
  ELSE IF StartsWith(sc, <<"C", "u", "r", "r", "e", "n", "t", " ", "P", "r", "i", "c", "e">>) THEN <<"C", "u", "r", "r", "e", "n", "t", " ", "P", "r", "i", "c", "e">>
  ELSE IF StartsWith(sc, <<"%", " ", "C", "h", "a", "n", "g", "e">>) THEN <<"%", " ", "C", "h", "a", "n", "g", "e">>
  ELSE c

Renamed(c) == RenamedStripped(c, Strip(c))

\* keep_cols, in its fixed order, and the column added
RecentColumns(cols) ==
  SelectSeq(<< ColName, ColListing, <<"I", "P", "O", " ", "M", "C", "a", "p", " ", "R", "s", ".", " ", "C", "r">>, <<"I", "P", "O", " ", "P", "r", "i", "c", "e">>,
               <<"C", "u", "r", "r", "e", "n", "t", " ", "P", "r", "i", "c", "e">>, <<"%", " ", "C", "h", "a", "n", "g", "e">> >>,
            LAMBDA k : \E i \in 1..Len(cols) : Renamed(cols[i]) = k)
  \o << <<"_", "l", "i", "s", "t", "i", "n", "g", "_", "d", "a", "t", "e">> >>

RecentRow(row, today_) ==
  [name |-> row.name, listing |-> row.listing,
   ld |-> parse_listing_date_screener(row.listing, today_)]

\* fetch_recent_processed() on the frame fetch_recent_raw returned
fetch_recent_processed(df, today_) ==
  IF IsEmptyDF(df) THEN df
  ELSE [cols |-> RecentColumns(df.cols),
        rows |-> [i \in 1..Len(df.rows) |-> RecentRow(df.rows[i], today_)]]

\* left <= d <= right for a date d; a missing date compares False
Between(d, left, right) == IsDate(d) /\ DateLE(left, d) /\ DateLE(d, right)

\* one element of df["_listing_date"].between(three_months_ago, today)
InPastWindow(d, today_) == Between(d, get_3_months_ago(today_), today_)

RowsInPastWindow(rows, today_) ==
  SelectSeq(rows, LAMBDA r : InPastWindow(r.ld, today_))

\* fetch_past_last_3_months() on the frame fetch_recent_processed returned
fetch_past_last_3_months(df, today_) ==
  IF IsEmptyDF(df) THEN df
  ELSE [cols |-> df.cols, rows |-> RowsInPastWindow(df.rows, today_)]

(***************************************************************************)
(* The calls through st.cache_data                                         *)
(*                                                                         *)
(* A call returns [raised, val] and the cache entries as the call leaves   *)
(* them.  A fresh entry is returned without running the function; a        *)
(* function that raises stores nothing.                                    *)
(***************************************************************************)

Returned(val) == [raised |-> "none", val |-> val]

Raised(what) == [raised |-> what, val |-> EmptyDF]

\* the outcome of running fetch_upcoming_raw / fetch_recent_raw
RawOutcome(r, what, entry, now_) ==
  IF r.raised THEN [res |-> Raised(what), raw |-> entry]
  ELSE [res |-> Returned(r.val), raw |-> Store(r.val, now_)]

\* fetch_upcoming_raw() through its cache
CallUpcomingRaw ==
  IF Fresh(cacheUpRaw, now)
  THEN [res |-> Returned(cacheUpRaw.val), raw |-> cacheUpRaw]
  ELSE RawOutcome(fetch_upcoming_raw(upPage), "read_html_upcoming", cacheUpRaw, now)

\* the outcome of running fetch_upcoming_processed on what the raw call gave
UpcomingOutcome(r, p, entry, now_) ==
  IF r.res.raised # "none" THEN [res |-> r.res, raw |-> r.raw, proc |-> entry]
  ELSE IF p.raised THEN [res |-> Raised("str_accessor"), raw |-> r.raw, proc |-> entry]
  ELSE [res |-> Returned(p.val), raw |-> r.raw, proc |-> Store(p.val, now_)]

RunUpcomingProcessed(r) ==
  UpcomingOutcome(r, fetch_upcoming_processed(r.res.val, today), cacheUpProc, now)

\* fetch_upcoming_processed() through its cache
CallUpcomingProcessed ==
  IF Fresh(cacheUpProc, now)
  THEN [res |-> Returned(cacheUpProc.val), raw |-> cacheUpRaw, proc |-> cacheUpProc]
  ELSE RunUpcomingProcessed(CallUpcomingRaw)

\* fetch_recent_raw() through its cache
CallRecentRaw ==
  IF Fresh(cacheRecRaw, now)
  THEN [res |-> Returned(cacheRecRaw.val), raw |-> cacheRecRaw]
  ELSE RawOutcome(fetch_recent_raw(recPage), "read_html_recent", cacheRecRaw, now)

\* the outcome of running fetch_recent_processed on what the raw call gave
RecentOutcome(r, v, entry, now_) ==
  IF r.res.raised # "none" THEN [res |-> r.res, raw |-> r.raw, proc |-> entry]
  ELSE [res |-> Returned(v), raw |-> r.raw, proc |-> Store(v, now_)]

RunRecentProcessed(r) ==
  RecentOutcome(r, fetch_recent_processed(r.res.val, today), cacheRecProc, now)

\* fetch_recent_processed() through its cache
CallRecentProcessed ==
  IF Fresh(cacheRecProc, now)
  THEN [res |-> Returned(cacheRecProc.val), raw |-> cacheRecRaw, proc |-> cacheRecProc]
  ELSE RunRecentProcessed(CallRecentRaw)

\* the outcome of running fetch_past_last_3_months on what the processed call gave
PastOutcome(r, v, entry, now_) ==
  IF r.res.raised # "none"
  THEN [res |-> r.res, raw |-> r.raw, proc |-> r.proc, past |-> entry]
  ELSE [res |-> Returned(v), raw |-> r.raw, proc |-> r.proc, past |-> Store(v, now_)]

RunPast(r) ==
  PastOutcome(r, fetch_past_last_3_months(r.res.val, today), cachePast, now)

\* fetch_past_last_3_months() through its cache
CallPast ==
  IF Fresh(cachePast, now)
  THEN [res |-> Returned(cachePast.val), raw |-> cacheRecRaw,
        proc |-> cacheRecProc, past |-> cachePast]
  ELSE RunPast(CallRecentProcessed)

(***************************************************************************)
(* The script run: the three tabs                                          *)
(***************************************************************************)

\* a variant of is_ongoing that opens the window the day after the start
is_ongoing_after_start(row, today_) ==
  IsDate(row.start) /\ IsDate(row.end)
  /\ DateLT(row.start, today_) /\ DateLE(today_, row.end)

\* is_ongoing(row)
is_ongoing(row, today_) ==
  IsDate(row.start) /\ IsDate(row.end)
  /\ DateLE(row.start, today_) /\ DateLE(today_, row.end)

\* the lambda of mask_upcoming
is_upcoming(d, today_) == IsDate(d) /\ DateLT(today_, d)

\* the index labels a boolean mask keeps
Masked(mask) ==
  SelectSeq([i \in 1..Len(mask) |-> i], LAMBDA i : mask[i])

\* df_up[mask_ongoing], as index labels
OngoingOf(df, today_) == 
  Masked([i \in 1..Len(df.rows) |-> is_ongoing(df.rows[i], today_)])

\* df_up[mask_upcoming], as index labels
UpcomingOf(df, today_) == 
  Masked([i \in 1..Len(df.rows) |-> is_upcoming(df.rows[i].start, today_)])

\* what a tab shows for a frame: st.warning for an empty one
TabOf(df) == IF IsEmptyDF(df) THEN "warning" ELSE "table"

\* no run yet; today is the script's variable today = dt.date.today()
NotRun ==
  [today |-> NoDate, raised |-> "none", ongoing |-> "none", upcoming |-> "none",
   past |-> "none"]

\* the run ends in the Ongoing tab with the exception its fetch raised
RenderAborted(up) ==
  /\ run' = [NotRun EXCEPT !.today = today, !.raised = up.res.raised]
  /\ viewOngoing' = << >>
  /\ viewUpcoming' = << >>
  /\ viewPast' = << >>
  /\ UNCHANGED <<cacheRecRaw, cacheRecProc, cachePast>>

\* the three tabs, for the frame df both upcoming tabs get and the outcome of
\* fetch_past_last_3_months
RenderTabs(df, past) ==
  /\ viewOngoing' = OngoingOf(df, today)
  /\ viewUpcoming' = UpcomingOf(df, today)
  /\ cacheRecRaw' = past.raw
  /\ cacheRecProc' = past.proc
  /\ cachePast' = past.past
  /\ viewPast' = past.res.val.rows
  /\ run' = [today    |-> today,
             raised   |-> past.res.raised,
             ongoing  |-> TabOf(df),
             upcoming |-> TabOf(df),
             past     |-> IF past.res.raised # "none" THEN "none"
                          ELSE TabOf(past.res.val)]

\* One run of the script, top to bottom, with today = dt.date.today() read at
\* its start.  An exception raised in a tab ends the run there: the later tabs
\* are not rendered.  The search boxes are empty, and the SEBI column of a view
\* is the work of get_best_sebi_ipo_doc, modelled below.
Render ==
  /\ \E up \in {CallUpcomingProcessed} :
       /\ cacheUpRaw' = up.raw
       /\ cacheUpProc' = up.proc
       /\ IF up.res.raised # "none"
          THEN RenderAborted(up)
          ELSE \E past \in {CallPast} : RenderTabs(up.res.val, past)
  /\ UNCHANGED <<today, now, ticks, upPage, recPage, columnVars, sebiVars, parseVars>>

\* the number of clock steps the model follows
MaxTicks == 3

\* one clock step: half the ttl, so that an entry is served at one later step
\* and has expired at the second
TickSeconds == CacheTTL \div 2

SecondsPerDay == 24 * 3600

\* Time passes; date.today() moves on when the clock passes midnight.
Tick ==
  /\ ticks < MaxTicks
  /\ ticks' = ticks + 1
  /\ now' = now + TickSeconds
  /\ today' = IF (now + TickSeconds) \div SecondsPerDay > now \div SecondsPerDay
              THEN PlusDays(today, 1) ELSE today
  /\ UNCHANGED <<upPage, recPage, cacheUpRaw, cacheUpProc, cacheRecRaw, cacheRecProc,
                 cachePast, viewOngoing, viewUpcoming, viewPast, run,
                 columnVars, sebiVars, parseVars>>

(***************************************************************************)
(* SEBI document locator                                                   *)
(***************************************************************************)

\* None, as the url of a filing
NoUrl == Null

PublicIssuesPath == <<"/", "f", "i", "l", "i", "n", "g", "s", "/", "p", "u", "b", "l", "i", "c", "-", "i", "s", "s", "u", "e", "s", "/">>

SebiHost == <<"h", "t", "t", "p", "s", ":", "/", "/", "w", "w", "w", ".", "s", "e", "b", "i", ".", "g", "o", "v", ".", "i", "n">>

\* _sebi_list_page(params): the anchors of the page, or None (here NoSoup) when
\* the request raised
NoSoup == [none |-> TRUE, links |-> << >>]

sebi_list_page(page) ==
  IF page.net = "fail" THEN NoSoup ELSE [none |-> FALSE, links |-> page.links]

\* first_word of _pick_doc_from_listing
FirstWord(company_name) ==
  IF company_name = << >> THEN << >> ELSE SplitWs(Lower(company_name))[1]

\* title of an anchor: get_text(strip=True), lower-cased
TitleOf(a) == Lower(Strip(a.text))

\* first_word and first_word not in title
LacksWord(title, first_word) == first_word # << >> /\ ~Contains(title, first_word)

\* the anchors the loop does not skip with continue
Considered(a, company_name) ==
  /\ a.href # Null /\ a.href # << >>
  /\ Contains(a.href, PublicIssuesPath)
  /\ ~LacksWord(TitleOf(a), FirstWord(company_name))

\* url of an anchor
UrlOf(a) == IF StartsWith(a.href, <<"/">>) THEN SebiHost \o a.href ELSE a.href

\* the branch of the if / elif / else chain a title takes
BucketOfTitle(title) ==
  IF Contains(title, <<"r", "h", "p">>) THEN "rhp"
  ELSE IF Contains(title, <<"d", "r", "h", "p">>) \/ Contains(title, <<"d", "r", "a", "f", "t">>) THEN "drhp"
  ELSE "other"

BucketOf(a) == BucketOfTitle(TitleOf(a))

\* anchor i is considered and falls in the bucket
Hit(links, i, company_name, bucket) ==
  Considered(links[i], company_name) /\ BucketOf(links[i]) = bucket

\* the url of anchor i, NoUrl for i = 0
UrlAt(links, i) == IF i = 0 THEN NoUrl ELSE UrlOf(links[i])

\* best_rhp / best_drhp / best_other after the loop: the url of the first
\* considered anchor of a bucket, NoUrl when there is none
BestOf(links, company_name, bucket) ==
  UrlAt(links, LeastOf({i \in 1..Len(links) : Hit(links, i, company_name, bucket)}))

\* best_rhp or best_drhp or best_other
FirstUrl(r, d, o) == IF r # NoUrl THEN r ELSE IF d # NoUrl THEN d ELSE o

\* _pick_doc_from_listing(soup, company_name)
pick_doc_from_listing(soup, company_name) ==
  IF soup.none THEN NoUrl
  ELSE FirstUrl(BestOf(soup.links, company_name, "rhp"),
                BestOf(soup.links, company_name, "drhp"),
                BestOf(soup.links, company_name, "other"))

\* the smid of the three listings, in the order get_best_sebi_ipo_doc asks for them
SmidRhp == 11

SmidDrhp == 10

SmidAll == 0

\* a variant of AfterListing that goes on to the next listing after a match
AfterListingContinue(u, next) == next

\* where get_best_sebi_ipo_doc goes after a listing gave u
AfterListing(u, next) == IF u # NoUrl THEN "returned" ELSE next

NoLink == [kind |-> "none", href |-> NoUrl, search |-> << >>]

\* One listing of get_best_sebi_ipo_doc: the request, and the pick from the page.
Query(at, smid, next) ==
  /\ pc = at
  /\ requests' = Append(requests, smid)
  /\ url' = pick_doc_from_listing(sebi_list_page(sebi[smid]), company)
  /\ pc' = AfterListing(url', next)
  /\ UNCHANGED <<sebi, company, shown, screenerVars, columnVars, parseVars>>

\* 1) RHP listing (smid=11)
QueryRhp == Query("rhp", SmidRhp, "drhp")

\* 2) DRHP listing (smid=10)
QueryDrhp == Query("drhp", SmidDrhp, "all")

\* 3) Fallback: generic Public Issues filings; its result is returned as it is
QueryAll == Query("all", SmidAll, "returned")

\* render_ai_analysis: the link shown for the value returned
PresentLink ==
  /\ pc = "returned"
  /\ shown' = IF url # NoUrl
              THEN [kind |-> "filing", href |-> url, search |-> << >>]
              ELSE [kind |-> "search", href |-> NoUrl, search |-> company]
  /\ pc' = "done"
  /\ UNCHANGED <<sebi, company, requests, url, screenerVars, columnVars, parseVars>>

(***************************************************************************)
(* normalize_columns applied to a header                                   *)
(***************************************************************************)

Pending == << <<"<pending>">> >>

NormalizeColumns ==
  /\ colsOut = Pending
  /\ colsOut' = normalize_columns(colsIn)
  /\ UNCHANGED <<colsIn, screenerVars, sebiVars, parseVars>>

(***************************************************************************)
(* parse_day_month and parse_listing_date_screener applied to a text       *)
(***************************************************************************)

NotParsed == [done |-> FALSE, date |-> NoDate, plain |-> NoDate, stripped |-> << >>]

\* parse_day_month(text, year) for a text with an ordinal suffix and for the same
\* text without it, and what strip_ordinal_suffix makes of the former
ParseDayMonth ==
  /\ parseIn.kind = "day_month"
  /\ ~parseOut.done
  /\ parseOut' = [done |-> TRUE,
                  date |-> parse_day_month(parseIn.text, parseIn.y, today),
                  plain |-> parse_day_month(parseIn.plain, parseIn.y, today),
                  stripped |-> strip_ordinal_suffix(parseIn.text)]
  /\ UNCHANGED <<parseIn, screenerVars, columnVars, sebiVars>>

\* parse_listing_date_screener(val)
ParseListingDate ==
  /\ parseIn.kind = "listing"
  /\ ~parseOut.done
  /\ parseOut' = [done |-> TRUE,
                  date |-> parse_listing_date_screener(parseIn.text, today),
                  plain |-> NoDate,
                  stripped |-> << >>]
  /\ UNCHANGED <<parseIn, screenerVars, columnVars, sebiVars>>

(***************************************************************************)
(* The pages the model is run on                                           *)
(***************************************************************************)

Flat(cols) == [multi |-> FALSE, cols |-> cols]

UpcomingHeader == Flat(<< ColName, ColPeriod, ColListing, <<"M", ".", "C", "a", "p", " ", "C", "r">> >>)

RecentHeader ==
  Flat(<< ColName, ColListing, <<"I", "P", "O", " ", "M", "C", "a", "p", " ", "R", "s", ".", " ", "C", "r">>, <<"I", "P", "O", " ", "P", "r", "i", "c", "e">> >>)

Row(name, period, listing) == [name |-> name, period |-> period, listing |-> listing]

Acme == <<"A", "c", "m", "e", " ", "L", "t", "d">>

\* Subscription Period cells
Periods ==
  { <<"8", " ", "D", "e", "c", " ", "-", " ", "1", "5", " ", "D", "e", "c">>, <<"8", "t", "h", " ", "D", "e", "c", " ", "-", " ", "1", "5", "t", "h", " ", "D", "e", "c">>, <<"2", "9", " ", "D", "e", "c", " ", "-", " ", "2", " ", "J", "a", "n">>, <<"1", "5", " ", "D", "e", "c">>,
    <<"2", "0", " ", "D", "e", "c", " ", "-", " ", "T", "B", "A">>, <<"T", "B", "A", " ", "-", " ", "1", "5", " ", "D", "e", "c">>, <<"1", "0", " ", "D", "e", "c", "-", "1", "2", " ", "D", "e", "c", " ", "2", "0", "2", "5">>,
    <<"8", " ", "D", "e", "c", " ", "-", " ", "1", "5", " ", "D", "e", "c", " ", "-", " ", "2", "0", "2", "5">>, Null }

\* Listing Date cells of the upcoming table
Listings == { <<"1", "8", " ", "D", "e", "c", " ", "2", "0", "2", "5">>, <<"5", " ", "J", "a", "n", " ", "2", "0", "2", "6">>, <<"t", "o", "d", "a", "y">>, <<"1", "8", " ", "D", "e", "c">>, Null }

\* rows of the upcoming table: every period with every listing date, and the
\* names the SME filter and the missing-name case are about
UpcomingRows ==
  { Row(Acme, p, l) : p \in Periods, l \in Listings }
  \cup { Row(n, <<"8", " ", "D", "e", "c", " ", "-", " ", "1", "5", " ", "D", "e", "c">>, <<"1", "8", " ", "D", "e", "c", " ", "2", "0", "2", "5">>) :
           n \in { Null, <<"F", "o", "o", " ", "S", "M", "E", " ", "L", "t", "d">>, <<"S", "m", "e", "l", "t", "e", "x", " ", "L", "t", "d">> } }

SecondRows ==
  { Row(<<"Z", "e", "t", "a", " ", "C", "o", "r", "p">>, <<"8", " ", "D", "e", "c", " ", "-", " ", "1", "5", " ", "D", "e", "c">>, <<"1", "8", " ", "D", "e", "c", " ", "2", "0", "2", "5">>),
    Row(Null, <<"9", " ", "D", "e", "c", " ", "-", " ", "1", "1", " ", "D", "e", "c">>, <<"1", "6", " ", "D", "e", "c", " ", "2", "0", "2", "5">>) }

Page(tables) == [net |-> "ok", tables |-> tables]

Table(header, rows) == [header |-> header, rows |-> rows]

\* upcoming pages with one recognised table of one or two rows
RowPages ==
  { Page(<< Table(UpcomingHeader, <<r>>) >>) : r \in UpcomingRows }
  \cup { Page(<< Table(UpcomingHeader, <<r, s>>) >>) : r \in UpcomingRows, s \in SecondRows }

\* Listing Date cells of the recent table
PastListings ==
  { <<"1", " ", "O", "c", "t", " ", "2", "0", "2", "5">>, <<"1", "1", " ", "S", "e", "p", " ", "2", "0", "2", "5">>, <<"1", "0", " ", "S", "e", "p", " ", "2", "0", "2", "5">>, <<"1", "0", " ", "D", "e", "c", " ", "2", "0", "2", "5">>, <<"1", "1", " ", "D", "e", "c", " ", "2", "0", "2", "5">>,
    <<"t", "o", "d", "a", "y">>, <<"t", "o", "m", "o", "r", "r", "o", "w">>, <<"y", "e", "s", "t", "e", "r", "d", "a", "y">>, <<"1", " ", "J", "a", "n">>, <<"3", "1", "-", "D", "e", "c", "-", "2", "0", "2", "5">>, Null }

PastPages ==
  { Page(<< Table(RecentHeader, << Row(Acme, Null, l) >>) >>) : l \in PastListings }
  \cup { Page(<< Table(RecentHeader,
                       << Row(Acme, Null, l), Row(<<"Z", "e", "t", "a", " ", "C", "o", "r", "p">>, Null, <<"t", "o", "d", "a", "y">>) >>) >>) :
           l \in PastListings }

DefaultUpcomingPage ==
  Page(<< Table(UpcomingHeader, << Row(Acme, <<"8", " ", "D", "e", "c", " ", "-", " ", "1", "5", " ", "D", "e", "c">>, <<"1", "8", " ", "D", "e", "c", " ", "2", "0", "2", "5">>) >>) >>)

DefaultRecentPage ==
  Page(<< Table(RecentHeader, << Row(Acme, Null, <<"1", " ", "O", "c", "t", " ", "2", "0", "2", "5">>) >>) >>)

\* headers of the tables a page may hold
Headers ==
  { UpcomingHeader,
    RecentHeader,
    Flat(<< <<"S", "r", ".", " ", "N", "o", ".">>, <<"U", "n", "n", "a", "m", "e", "d", ":", " ", "0">>, ColName, ColListing >>),
    Flat(<< <<"S", "r", ".", " ", "N", "o", ".">>, <<" ", "N", "a", "m", "e", " ">>, <<"S", "u", "b", "s", "c", "r", "i", "p", "t", "i", "o", "n", " ", "P", "e", "r", "i", "o", "d", " ">>, ColListing >>),
    Flat(<< <<"C", "o", "m", "p", "a", "n", "y">>, <<"O", "p", "e", "n">>, <<"C", "l", "o", "s", "e">> >>),
    Flat(<< ColName, ColListing, <<"E", "s", "t", ".", " ", "I", "P", "O", " ", "M", "C", "a", "p">> >>),
    [multi |-> TRUE,
     cols |-> << << <<"I", "P", "O">>, ColName >>, << <<"n", "a", "n">>, ColPeriod >>,
                 << <<"n", "a", "n">>, ColListing >> >>],
    [multi |-> TRUE,
     cols |-> << << <<"n", "a", "n">>, ColName >>, << <<"N", "a", "N">>, ColPeriod >>,
                 << Null, ColListing >>, << <<"U", "n", "n", "a", "m", "e", "d", ":", " ", "3", "_", "l", "e", "v", "e", "l", "_", "0">>, <<"S", "r", " ", "N", "o">> >> >>] }

OneRow == << Row(Acme, <<"8", " ", "D", "e", "c", " ", "-", " ", "1", "5", " ", "D", "e", "c">>, <<"1", " ", "O", "c", "t", " ", "2", "0", "2", "5">>) >>

\* pages for the table selection: unreachable, without a table, with one or two tables
FetchPages ==
  { [net |-> "fail", tables |-> << >>], Page(<< >>) }
  \cup { Page(<< Table(h, OneRow) >>) : h \in Headers }
  \cup { Page(<< Table(h, OneRow), Table(g, << Row(<<"Z", "e", "t", "a", " ", "C", "o", "r", "p">>, <<"1", "5", " ", "D", "e", "c">>, <<"t", "o", "d", "a", "y">>) >>) >>) :
           h \in Headers, g \in Headers }

StartDays == { MkDate(2025, 12, 10), MkDate(2025, 12, 31) }

\* noon, and five minutes to midnight
StartTimes == { 12 * 3600, 24 * 3600 - 300 }

(***************************************************************************)
(* The Screener tabs: specification Spec                                   *)
(***************************************************************************)

ColumnsIdle == colsIn = Flat(<< >>) /\ colsOut = Pending

SebiIdle ==
  /\ sebi = [s \in {SmidRhp, SmidDrhp, SmidAll} |-> [net |-> "fail", links |-> << >>]]
  /\ company = Acme
  /\ pc = "idle"
  /\ requests = << >>
  /\ url = NoUrl
  /\ shown = NoLink

ParseIdle ==
  /\ parseIn = [kind |-> "none", d |-> 0, mi |-> 0, y |-> 0, text |-> << >>, plain |-> << >>]
  /\ parseOut = NotParsed

ScreenerIdle ==
  /\ cacheUpRaw = NoEntry
  /\ cacheUpProc = NoEntry
  /\ cacheRecRaw = NoEntry
  /\ cacheRecProc = NoEntry
  /\ cachePast = NoEntry
  /\ viewOngoing = << >>
  /\ viewUpcoming = << >>
  /\ viewPast = << >>
  /\ run = NotRun
  /\ ticks = 0

Init ==
  /\ today \in StartDays
  /\ now \in StartTimes
  /\ \/ upPage \in RowPages /\ recPage = DefaultRecentPage
     \/ upPage \in FetchPages /\ recPage = DefaultRecentPage
     \/ upPage = DefaultUpcomingPage /\ recPage \in FetchPages
     \/ upPage = DefaultUpcomingPage /\ recPage \in PastPages
  /\ ScreenerIdle
  /\ ParseIdle
  /\ ColumnsIdle
  /\ SebiIdle

Next == Tick \/ Render

Spec == Init /\ [][Next]_vars

(***************************************************************************)
(* normalize_columns on its own: specification SpecColumns                 *)
(***************************************************************************)

ColumnNames ==
  { <<"S", "r", ".", " ", "N", "o", ".">>, <<"U", "n", "n", "a", "m", "e", "d", ":", " ", "0">>, ColName, ColListing, <<"N", "o", ".">>, <<"S", "r">>,
    <<" ", "S", "R", " ", "N", "O", " ">>, <<"N", "o", "t", " ", "U", "n", "n", "a", "m", "e", "d">>, <<"M", "i", "s", "r", "e", "p", " ", "N", "o", "t", "e">> }

\* flat headers of up to three columns, and the MultiIndex headers above
ColumnHeaders ==
  { Flat(<< >>) }
  \cup { Flat(<<a>>) : a \in ColumnNames }
  \cup { Flat(<<a, b>>) : a \in ColumnNames, b \in ColumnNames }
  \cup { Flat(<< <<"S", "r", ".", " ", "N", "o", ".">>, <<"U", "n", "n", "a", "m", "e", "d", ":", " ", "0">>, ColName, ColListing >>) }
  \cup { Flat(<<a, ColName, b>>) : a \in ColumnNames, b \in ColumnNames }
  \cup { h \in Headers : h.multi }

InitColumns ==
  /\ colsIn \in ColumnHeaders
  /\ colsOut = Pending
  /\ today = MkDate(2025, 12, 10)
  /\ now = 0
  /\ upPage = DefaultUpcomingPage
  /\ recPage = DefaultRecentPage
  /\ ScreenerIdle
  /\ ParseIdle
  /\ SebiIdle

NextColumns == NormalizeColumns

SpecColumns == InitColumns /\ [][NextColumns]_vars

(***************************************************************************)
(* The SEBI document locator: specification SpecSebi                       *)
(***************************************************************************)

Anchor(text, href) == [text |-> text, href |-> href]

AcmeRhp == Anchor(<<"A", "c", "m", "e", " ", "L", "t", "d", " ", "-", " ", "R", "H", "P">>, <<"/", "f", "i", "l", "i", "n", "g", "s", "/", "p", "u", "b", "l", "i", "c", "-", "i", "s", "s", "u", "e", "s", "/", "r">>)

AcmeDrhp == Anchor(<<"A", "c", "m", "e", " ", "L", "t", "d", " ", "-", " ", "D", "R", "H", "P">>, <<"/", "f", "i", "l", "i", "n", "g", "s", "/", "p", "u", "b", "l", "i", "c", "-", "i", "s", "s", "u", "e", "s", "/", "d">>)

AcmeDraft ==
  Anchor(<<" ", "A", "c", "m", "e", " ", "L", "t", "d", " ", "D", "r", "a", "f", "t", " ", "O", "f", "f", "e", "r", " ", "D", "o", "c", "u", "m", "e", "n", "t", " ">>,
         <<"h", "t", "t", "p", "s", ":", "/", "/", "w", "w", "w", ".", "s", "e", "b", "i", ".", "g", "o", "v", ".", "i", "n", "/", "f", "i", "l", "i", "n", "g", "s", "/", "p", "u", "b", "l", "i", "c", "-", "i", "s", "s", "u", "e", "s", "/", "f">>)

AcmeOther == Anchor(<<"A", "c", "m", "e", " ", "L", "t", "d", " ", "-", " ", "A", "d", "d", "e", "n", "d", "u", "m">>, <<"/", "f", "i", "l", "i", "n", "g", "s", "/", "p", "u", "b", "l", "i", "c", "-", "i", "s", "s", "u", "e", "s", "/", "o">>)

ZetaRhp == Anchor(<<"Z", "e", "t", "a", " ", "C", "o", "r", "p", " ", "-", " ", "R", "H", "P">>, <<"/", "f", "i", "l", "i", "n", "g", "s", "/", "p", "u", "b", "l", "i", "c", "-", "i", "s", "s", "u", "e", "s", "/", "z">>)

AcmeCircular == Anchor(<<"A", "c", "m", "e", " ", "L", "t", "d", " ", "-", " ", "R", "H", "P">>, <<"/", "l", "e", "g", "a", "l", "/", "c", "i", "r", "c", "u", "l", "a", "r", "s", "/", "c">>)

AcmeNoHref == Anchor(<<"A", "c", "m", "e", " ", "L", "t", "d", " ", "-", " ", "R", "H", "P">>, Null)

Anchors == { AcmeRhp, AcmeDrhp, AcmeDraft, AcmeOther, ZetaRhp, AcmeCircular, AcmeNoHref }

Listing(links) == [net |-> "ok", links |-> links]

Unreachable == [net |-> "fail", links |-> << >>]

\* listings of up to three anchors
RichListings ==
  { Unreachable, Listing(<< >>) }
  \cup { Listing(<<a>>) : a \in Anchors }
  \cup { Listing(<<a, b>>) : a \in Anchors, b \in Anchors }
  \cup { Listing(<<a, b, c>>) : a \in {AcmeRhp, AcmeDrhp, AcmeDraft, AcmeOther},
                                b \in {AcmeRhp, AcmeDrhp, AcmeDraft, AcmeOther},
                                c \in {AcmeRhp, AcmeDrhp, AcmeDraft, AcmeOther} }

PlainListings ==
  { Unreachable, Listing(<< >>), Listing(<<AcmeRhp>>), Listing(<<AcmeDraft>>),
    Listing(<<ZetaRhp, AcmeOther>>) }

InitSebi ==
  /\ company \in { Acme, <<"Z", "e", "t", "a", " ", "C", "o", "r", "p">> }
  /\ \/ /\ sebi \in [{SmidRhp, SmidDrhp, SmidAll} -> PlainListings]
     \/ /\ \E l \in RichListings, m \in {Unreachable, Listing(<<AcmeOther>>)} :
             sebi = [s \in {SmidRhp, SmidDrhp, SmidAll} |-> IF s = SmidRhp THEN l ELSE m]
  /\ pc = "rhp"
  /\ requests = << >>
  /\ url = NoUrl
  /\ shown = NoLink
  /\ today = MkDate(2025, 12, 10)
  /\ now = 0
  /\ upPage = DefaultUpcomingPage
  /\ recPage = DefaultRecentPage
  /\ ScreenerIdle
  /\ ParseIdle
  /\ ColumnsIdle

NextSebi == QueryRhp \/ QueryDrhp \/ QueryAll \/ PresentLink

SpecSebi == InitSebi /\ [][NextSebi]_vars



(***************************************************************************)
(* The date parsers on their own: specification SpecParse                  *)
(***************************************************************************)

DigitText == << "0", "1", "2", "3", "4", "5", "6", "7", "8", "9" >>

\* a day number as it is written
DayText(d) ==
  IF d < 10 THEN << DigitText[d + 1] >>
  ELSE << DigitText[(d \div 10) + 1], DigitText[(d % 10) + 1] >>

\* a year as it is written, in four digits
YearText(y) ==
  << DigitText[(y \div 1000) + 1], DigitText[((y \div 100) % 10) + 1],
     DigitText[((y \div 10) % 10) + 1], DigitText[(y % 10) + 1] >>

\* the ordinal suffix of a day number
OrdinalSuffix(d) ==
  IF d \in {1, 21, 31} THEN <<"s", "t">>
  ELSE IF d \in {2, 22} THEN <<"n", "d">>
  ELSE IF d \in {3, 23} THEN <<"r", "d">>
  ELSE <<"t", "h">>

MonthNames ==
  << <<"J", "a", "n">>, <<"F", "e", "b">>, <<"M", "a", "r">>, <<"A", "p", "r">>, <<"M", "a", "y">>, <<"J", "u", "n">>,
     <<"J", "u", "l">>, <<"A", "u", "g">>, <<"S", "e", "p">>, <<"O", "c", "t">>, <<"N", "o", "v">>, <<"D", "e", "c">> >>

\* month tokens: the abbreviations, one in lower case, full and misspelt names
MonthTokens ==
  { MonthNames[i] : i \in 1..12 }
  \cup { <<"d", "e", "c">>, <<"A", "u", "g", "u", "s", "t">>, <<"A", "u", "g", "s", "t">>, <<"S", "e", "p", "t">>, <<"S", "e", "s", "t", "p">>, <<"X", "y", "z">> }

\* fallback years of parse_day_month, 0 for None
FallbackYears == { 0, 2024, 2025 }

\* "<d><suffix> <m>" and "<d> <m>" for every day number, with a fallback year
DayMonthInputs ==
  { [kind |-> "day_month", d |-> d, mi |-> 0, y |-> y,
     text |-> DayText(d) \o OrdinalSuffix(d) \o <<" ">> \o m,
     plain |-> DayText(d) \o <<" ">> \o m] :
      d \in 1..31, m \in MonthTokens, y \in FallbackYears }

ListingDays == { 1, 15, 28, 29, 30, 31 }

\* the years written in a listing date
ListingYears == { 1900, 1904, 1999, 2025, 2028 }

\* "<d> <Mon> <year>", "<d>-<Mon>-<year>" and "<d> <Mon>"; y = 0 without a year
ListingInputs ==
  { [kind |-> "listing", d |-> d, mi |-> mi, y |-> y,
     text |-> DayText(d) \o sep \o MonthNames[mi] \o sep \o YearText(y),
     plain |-> << >>] :
      d \in ListingDays, mi \in 1..12, y \in ListingYears, sep \in { <<" ">>, <<"-">> } }
  \cup { [kind |-> "listing", d |-> d, mi |-> mi, y |-> 0,
          text |-> DayText(d) \o <<" ">> \o MonthNames[mi],
          plain |-> << >>] :
           d \in ListingDays, mi \in 1..12 }

\* a day of a common year and a day of a leap year
ParseDays == { MkDate(2025, 12, 10), MkDate(2028, 3, 1) }

InitParse ==
  /\ today \in ParseDays
  /\ parseIn \in DayMonthInputs \cup ListingInputs
  /\ parseOut = NotParsed
  /\ now = 0
  /\ upPage = DefaultUpcomingPage
  /\ recPage = DefaultRecentPage
  /\ ScreenerIdle
  /\ ColumnsIdle
  /\ SebiIdle

NextParse == ParseDayMonth \/ ParseListingDate

SpecParse == InitParse /\ [][NextParse]_vars

(***************************************************************************)
(* Properties                                                              *)
(***************************************************************************)

InSeq(seq, x) == \E i \in 1..Len(seq) : seq[i] = x

\* the day on which a cache entry was stored: the clock counts from midnight of
\* the first day, so the days since then are the difference of the day numbers
DayStored(entry) ==
  PlusDays(today, 0 - ((now \div SecondsPerDay) - (entry.at \div SecondsPerDay)))

\* the frame the upcoming tabs of the last run were built from
DfUp == cacheUpProc.val

\* s <= t <= e, counted in days
WindowOpenOn(s, e, t) ==
  ToOrdinal(s) <= ToOrdinal(t) /\ ToOrdinal(t) <= ToOrdinal(e)

\* C1: after a run that showed the upcoming tabs, a record is in the Ongoing view
\* iff its start and end are both known and start <= today <= end, and in the
\* Upcoming view iff its start is known and start > today, whatever its end; a
\* record without a start is in neither.
C1_ViewsFollowWindow ==
  run.ongoing = "table" =>
    \A i \in 1..Len(DfUp.rows) :
      /\ InSeq(viewOngoing, i) <=>
           /\ DfUp.rows[i].start # NoDate
           /\ DfUp.rows[i].end # NoDate
           /\ WindowOpenOn(DfUp.rows[i].start, DfUp.rows[i].end, run.today)
      /\ InSeq(viewUpcoming, i) <=>
           /\ DfUp.rows[i].start # NoDate
           /\ ToOrdinal(DfUp.rows[i].start) > ToOrdinal(run.today)
      /\ DfUp.rows[i].start = NoDate =>
           ~InSeq(viewOngoing, i) /\ ~InSeq(viewUpcoming, i)

\* a run showed one record as ongoing and another, whose end is unknown, as upcoming
C1_Witness ==
  /\ run.ongoing = "table"
  /\ viewOngoing # << >>
  /\ \E k \in 1..Len(viewUpcoming) : DfUp.rows[viewUpcoming[k]].end = NoDate

\* C2: when a Screener page cannot be fetched, the run still reaches the
\* "could not load" view of its tab: the fetcher returned the empty result and
\* raised nothing.
C2_FetchFailureShowsWarning ==
  /\ (upPage.net = "fail" /\ run.today # NoDate) =>
       run.raised = "none" /\ run.ongoing = "warning"
  /\ (recPage.net = "fail" /\ run.today # NoDate /\ run.ongoing # "none") =>
       run.raised = "none" /\ run.past = "warning"

\* C3: every record fetch_upcoming_processed retains has a company name, and so
\* has every record of the Ongoing and Upcoming views.
C3_RetainedNamesNonEmpty ==
  \A i \in 1..Len(DfUp.rows) : DfUp.rows[i].name # Null /\ DfUp.rows[i].name # << >>

NameAndListing(rows) ==
  [i \in 1..Len(rows) |-> <<rows[i].name, rows[i].listing>>]

\* the rows whose listing date, resolved on day t, lies in [t - 90 days, t]
ListedWithin90Days(rows, t) ==
  SelectSeq(rows,
            LAMBDA r :
              /\ parse_listing_date_screener(r.listing, t) # NoDate
              /\ ToOrdinal(t) - 90 <= ToOrdinal(parse_listing_date_screener(r.listing, t))
              /\ ToOrdinal(parse_listing_date_screener(r.listing, t)) <= ToOrdinal(t))

\* C4: at every run that shows the Past tab, the Past view holds exactly the
\* records of the fetched table whose listing date, resolved against the today
\* of that run, lies in [today - 90 days, today].
C4_PastComputedPerRun ==
  run.past \in {"table", "warning"} =>
    NameAndListing(viewPast)
      = NameAndListing(ListedWithin90Days(cacheRecRaw.val.rows, run.today))

\* C7: in every record of fetch_upcoming_processed with both ends known,
\* subscription_end >= subscription_start.
C7_EndNotBeforeStart ==
  \A i \in 1..Len(DfUp.rows) :
    (DfUp.rows[i].start # NoDate /\ DfUp.rows[i].end # NoDate) =>
      ToOrdinal(DfUp.rows[i].start) <= ToOrdinal(DfUp.rows[i].end)

\* What each period text of the model's pages says, read by hand: <<day, month,
\* year>> of its start and of its end, <<0, 0, 0>> for "no date", year 0 where
\* the text gives none.
PeriodMeaning(text) ==
  CASE text = <<"8", " ", "D", "e", "c", " ", "-", " ", "1", "5", " ", "D", "e", "c">>          -> [s |-> <<8, 12, 0>>,  e |-> <<15, 12, 0>>]
    [] text = <<"8", "t", "h", " ", "D", "e", "c", " ", "-", " ", "1", "5", "t", "h", " ", "D", "e", "c">>      -> [s |-> <<8, 12, 0>>,  e |-> <<15, 12, 0>>]
    [] text = <<"2", "9", " ", "D", "e", "c", " ", "-", " ", "2", " ", "J", "a", "n">>          -> [s |-> <<29, 12, 0>>, e |-> <<2, 1, 0>>]
    [] text = <<"1", "5", " ", "D", "e", "c">>                  -> [s |-> <<15, 12, 0>>, e |-> <<15, 12, 0>>]
    [] text = <<"2", "0", " ", "D", "e", "c", " ", "-", " ", "T", "B", "A">>            -> [s |-> <<20, 12, 0>>, e |-> <<0, 0, 0>>]
    [] text = <<"T", "B", "A", " ", "-", " ", "1", "5", " ", "D", "e", "c">>            -> [s |-> <<0, 0, 0>>,   e |-> <<15, 12, 0>>]
    [] text = <<"1", "0", " ", "D", "e", "c", "-", "1", "2", " ", "D", "e", "c", " ", "2", "0", "2", "5">>      -> [s |-> <<10, 12, 0>>, e |-> <<12, 12, 2025>>]
    [] text = <<"8", " ", "D", "e", "c", " ", "-", " ", "1", "5", " ", "D", "e", "c", " ", "-", " ", "2", "0", "2", "5">>   -> [s |-> <<8, 12, 0>>,  e |-> <<0, 0, 0>>]
    [] text = <<"2", "0", " ", "D", "e", "c", " ", "-", " ", "2", "4", " ", "D", "e", "c">>         -> [s |-> <<20, 12, 0>>, e |-> <<24, 12, 0>>]
    [] text = <<"9", " ", "D", "e", "c", " ", "-", " ", "1", "1", " ", "D", "e", "c">>          -> [s |-> <<9, 12, 0>>,  e |-> <<11, 12, 0>>]
    [] text = Null                        -> [s |-> <<0, 0, 0>>,   e |-> <<0, 0, 0>>]

\* the date a <<day, month, year>> of PeriodMeaning stands for, with the fallback year
MeantDate(dmy, fallback) ==
  IF dmy[1] = 0 THEN NoDate
  ELSE MkDate(IF dmy[3] = 0 THEN fallback ELSE dmy[3], dmy[2], dmy[1])

\* the fallback year of a record: its listing year when the listing date is
\* known, else the year of the day on which it was parsed
FallbackYear(r) == IF r.ld # NoDate THEN r.ld.y ELSE DayStored(cacheUpProc).y

\* C8: a period with a hyphen is split on its first hyphen only and each side is
\* parsed on its own, with the listing year (else the current year) as fallback
\* year of both ends; a period without a hyphen gives start = end; either side
\* may be "no date" on its own.
C8_WindowParsing ==
  \A i \in 1..Len(DfUp.rows) :
    /\ DfUp.rows[i].start
         = MeantDate(PeriodMeaning(DfUp.rows[i].period).s, FallbackYear(DfUp.rows[i]))
    /\ DfUp.rows[i].end
         = MeantDate(PeriodMeaning(DfUp.rows[i].period).e, FallbackYear(DfUp.rows[i]))
    /\ ~Contains(StrOf(DfUp.rows[i].period), <<"-">>) =>
         DfUp.rows[i].start = DfUp.rows[i].end

\* "8 Dec - 15 Dec" with listing year 2025 gave 2025-12-08 and 2025-12-15, beside
\* a record of which the start only is a date, in its listing year 2026 while the
\* current year is 2025
C8_Witness ==
  /\ \E i \in 1..Len(DfUp.rows) :
       /\ DfUp.rows[i].period = <<"8", " ", "D", "e", "c", " ", "-", " ", "1", "5", " ", "D", "e", "c">>
       /\ DfUp.rows[i].ld # NoDate /\ DfUp.rows[i].ld.y = 2025
       /\ DfUp.rows[i].start = MkDate(2025, 12, 8)
       /\ DfUp.rows[i].end = MkDate(2025, 12, 15)
  /\ \E i \in 1..Len(DfUp.rows) :
       /\ DfUp.rows[i].start # NoDate /\ DfUp.rows[i].end = NoDate
       /\ DfUp.rows[i].start.y = 2026 /\ DayStored(cacheUpProc).y = 2025

\* the headers of the model's pages, read by hand: which of them, once the serial
\* and unnamed columns are gone and the names are trimmed, show Name, Subscription
\* Period and Listing Date
UpcomingHeaders ==
  { UpcomingHeader,
    Flat(<< <<"S", "r", ".", " ", "N", "o", ".">>, <<" ", "N", "a", "m", "e", " ">>, <<"S", "u", "b", "s", "c", "r", "i", "p", "t", "i", "o", "n", " ", "P", "e", "r", "i", "o", "d", " ">>, ColListing >>),
    [multi |-> TRUE,
     cols |-> << << <<"n", "a", "n">>, ColName >>, << <<"N", "a", "N">>, ColPeriod >>,
                 << Null, ColListing >>, << <<"U", "n", "n", "a", "m", "e", "d", ":", " ", "3", "_", "l", "e", "v", "e", "l", "_", "0">>, <<"S", "r", " ", "N", "o">> >> >>] }

\* and which show Name, Listing Date and a column with "IPO MCap" in its name
RecentHeaders == { RecentHeader, Flat(<< ColName, ColListing, <<"E", "s", "t", ".", " ", "I", "P", "O", " ", "M", "C", "a", "p">> >>) }

\* the rows of the first table of the page with a header of the set, << >>
\* without such a table
RowsOfFirst(page, headers) ==
  IF \E k \in 1..Len(page.tables) : page.tables[k].header \in headers
  THEN page.tables[CHOOSE k \in 1..Len(page.tables) :
                     /\ page.tables[k].header \in headers
                     /\ \A j \in 1..(k - 1) : page.tables[j].header \notin headers].rows
  ELSE << >>

NoneOf(page, headers) ==
  \A k \in 1..Len(page.tables) : page.tables[k].header \notin headers

\* C9 as stated: the fetcher returns the first table in page order whose header
\* shows the required columns, and the first table of the page when no header does.
C9_FallsBackToFirstTable ==
  /\ cacheUpRaw.full =>
       cacheUpRaw.val.rows = IF NoneOf(upPage, UpcomingHeaders)
                             THEN upPage.tables[1].rows
                             ELSE RowsOfFirst(upPage, UpcomingHeaders)
  /\ cacheRecRaw.full =>
       cacheRecRaw.val.rows = IF NoneOf(recPage, RecentHeaders)
                              THEN recPage.tables[1].rows
                              ELSE RowsOfFirst(recPage, RecentHeaders)

\* C9 amended: the fetcher returns the first table in page order whose header
\* shows the required columns, and the empty frame when no header does.
C9_FirstMatchElseEmpty ==
  /\ cacheUpRaw.full =>
       /\ cacheUpRaw.val.rows = RowsOfFirst(upPage, UpcomingHeaders)
       /\ NoneOf(upPage, UpcomingHeaders) => cacheUpRaw.val = EmptyDF
  /\ cacheRecRaw.full =>
       /\ cacheRecRaw.val.rows = RowsOfFirst(recPage, RecentHeaders)
       /\ NoneOf(recPage, RecentHeaders) => cacheRecRaw.val = EmptyDF

\* a page of two tables of which neither shows the columns was fetched, and the
\* frame returned is the empty one, not the first table
C9_Witness ==
  /\ cacheUpRaw.full
  /\ Len(upPage.tables) = 2
  /\ NoneOf(upPage, UpcomingHeaders)
  /\ upPage.tables[1].rows # << >>
  /\ cacheUpRaw.val = EmptyDF

\* the column names of the model's headers that are serial-number or unnamed
\* columns, read by hand
SerialOrUnnamed == { <<"S", "r", ".", " ", "N", "o", ".">>, <<"U", "n", "n", "a", "m", "e", "d", ":", " ", "0">>, <<" ", "S", "R", " ", "N", "O", " ">>, <<"M", "i", "s", "r", "e", "p", " ", "N", "o", "t", "e">> }

\* what is left of the MultiIndex headers, read by hand
MultiMeaning(header) ==
  IF header.cols[1][1] = <<"I", "P", "O">>
  THEN << <<"I", "P", "O", " ", "N", "a", "m", "e">>, ColPeriod, ColListing >>
  ELSE << ColName, ColPeriod, ColListing >>

\* C10: normalize_columns drops exactly the columns whose lower-cased, trimmed
\* name contains both "sr" and "no" or starts with "unnamed", and keeps the others
\* as they are and in their order; ["Sr. No.", "Unnamed: 0", "Name", "Listing
\* Date"] gives ["Name", "Listing Date"].
C10_DropsSerialAndUnnamed ==
  colsOut # Pending =>
    /\ ~colsIn.multi =>
         colsOut = SelectSeq(colsIn.cols, LAMBDA c : c \notin SerialOrUnnamed)
    /\ colsIn.multi => colsOut = MultiMeaning(colsIn)
    /\ colsIn = Flat(<< <<"S", "r", ".", " ", "N", "o", ".">>, <<"U", "n", "n", "a", "m", "e", "d", ":", " ", "0">>, ColName, ColListing >>) =>
         colsOut = << ColName, ColListing >>

C10_Witness ==
  /\ colsIn = Flat(<< <<"S", "r", ".", " ", "N", "o", ".">>, <<"U", "n", "n", "a", "m", "e", "d", ":", " ", "0">>, ColName, ColListing >>)
  /\ colsOut = << ColName, ColListing >>

\* the anchors of the model's listings, read by hand: the filings of a company
\* under the public-issues path, and what kind of document each is
FilingsOf(company_name) ==
  IF company_name = Acme THEN {AcmeRhp, AcmeDrhp, AcmeDraft, AcmeOther} ELSE {ZetaRhp}

FinalDocs == {AcmeRhp, ZetaRhp}

DraftDocs == {AcmeDrhp, AcmeDraft}

FullUrl(a) ==
  IF a = AcmeDraft THEN a.href ELSE <<"h", "t", "t", "p", "s", ":", "/", "/", "w", "w", "w", ".", "s", "e", "b", "i", ".", "g", "o", "v", ".", "i", "n">> \o a.href

\* the first anchor of the links that is in the set, as a url; NoUrl without one
FirstIn(links, S) ==
  IF \E i \in 1..Len(links) : links[i] \in S
  THEN FullUrl(links[CHOOSE i \in 1..Len(links) :
                       links[i] \in S /\ \A j \in 1..(i - 1) : links[j] \notin S])
  ELSE NoUrl

\* the document of a listing page for a company: the first final one, else the
\* first draft, else the first other filing
PreferredDoc(page, company_name) ==
  IF page.net = "fail" THEN NoUrl
  ELSE IF FirstIn(page.links, FilingsOf(company_name) \cap FinalDocs) # NoUrl
       THEN FirstIn(page.links, FilingsOf(company_name) \cap FinalDocs)
  ELSE IF FirstIn(page.links, FilingsOf(company_name) \cap DraftDocs) # NoUrl
       THEN FirstIn(page.links, FilingsOf(company_name) \cap DraftDocs)
  ELSE FirstIn(page.links, FilingsOf(company_name))

\* C5: from one listing page _pick_doc_from_listing returns the first matching
\* link to a final (RHP) document, else the first to a draft (DRHP / draft), else
\* the first other matching link; never a draft in preference to a final one.
C5_FinalBeforeDraft ==
  requests = <<SmidRhp>> => url = PreferredDoc(sebi[SmidRhp], company)

\* a listing yields a match for the company
Yields(page, company_name) ==
  page.net = "ok" /\ \E i \in 1..Len(page.links) : page.links[i] \in FilingsOf(company_name)

SmidOrder == <<SmidRhp, SmidDrhp, SmidAll>>

\* the number of listings asked: up to the first that yields a match
AskedCount ==
  IF \E k \in 1..3 : Yields(sebi[SmidOrder[k]], company)
  THEN CHOOSE k \in 1..3 :
         /\ Yields(sebi[SmidOrder[k]], company)
         /\ \A j \in 1..(k - 1) : ~Yields(sebi[SmidOrder[j]], company)
  ELSE 3

\* C6: the listings are asked in the order 11, 10, 0, each at most once; the
\* match of the earliest listing that yields one is returned and no later listing
\* is asked; a failed request counts as no match; with no match anywhere the
\* result is None and the generic search link is shown.
C6_ListingsInOrder ==
  /\ \E k \in 0..3 : requests = SubSeq(SmidOrder, 1, k)
  /\ pc \in {"returned", "done"} =>
       /\ requests = SubSeq(SmidOrder, 1, AskedCount)
       /\ (url # NoUrl) <=> Yields(sebi[SmidOrder[AskedCount]], company)
       /\ url # NoUrl =>
            \E i \in 1..Len(sebi[SmidOrder[AskedCount]].links) :
              /\ sebi[SmidOrder[AskedCount]].links[i] \in FilingsOf(company)
              /\ url = FullUrl(sebi[SmidOrder[AskedCount]].links[i])
  /\ pc = "done" =>
       shown = IF url = NoUrl
               THEN [kind |-> "search", href |-> NoUrl, search |-> company]
               ELSE [kind |-> "filing", href |-> url, search |-> << >>]

\* the request for the final-prospectus listing failed, the draft listing gave
\* the filing shown, and the third listing was not asked
C6_Witness ==
  /\ pc = "done"
  /\ sebi[SmidRhp].net = "fail"
  /\ requests = <<SmidRhp, SmidDrhp>>
  /\ shown.kind = "filing"

\* C11: for every day number with its ordinal suffix, every month token and
\* every fallback year, parse_day_month gives for "<d><suffix> <m>" what it gives
\* for "<d> <m>", and the suffix stripping takes away the ordinal suffix of the
\* day token and nothing else: what is left is "<d> <m>".
C11_OnlyDaySuffixStripped ==
  (parseOut.done /\ parseIn.kind = "day_month") =>
    /\ parseOut.date = parseOut.plain
    /\ parseOut.stripped = parseIn.plain

\* C11, the first half alone: the text with the suffix parses as the text without
C11_SuffixedParsesAsPlain ==
  (parseOut.done /\ parseIn.kind = "day_month") => parseOut.date = parseOut.plain

\* C11, the second half for the month abbreviations of %b alone
C11_AbbreviationsLeftAlone ==
  (parseOut.done /\ parseIn.kind = "day_month"
     /\ \E i \in 1..12 : parseIn.plain = DayText(parseIn.d) \o <<" ">> \o MonthNames[i]) =>
    parseOut.stripped = parseIn.plain

\* C12: parse_listing_date_screener puts in the current year only when the text
\* has none: a text that parses with an explicit year Y gives its date in year Y,
\* for every Y, and a text without a year that names a day of the current year,
\* 29 Feb of a leap year among them, gives that day of the current year.
C12_CurrentYearOnlyWithoutYear ==
  (parseOut.done /\ parseIn.kind = "listing") =>
    /\ (parseIn.y # 0 /\ ValidDate(parseIn.y, parseIn.mi, parseIn.d)) =>
         parseOut.date = MkDate(parseIn.y, parseIn.mi, parseIn.d)
    /\ (parseIn.y = 0 /\ ValidDate(today.y, parseIn.mi, parseIn.d)) =>
         parseOut.date = MkDate(today.y, parseIn.mi, parseIn.d)

\* C12 for explicit years other than 1900
C12_ExplicitYearKept ==
  (parseOut.done /\ parseIn.kind = "listing" /\ parseIn.y \notin {0, 1900}
     /\ ValidDate(parseIn.y, parseIn.mi, parseIn.d)) =>
    parseOut.date = MkDate(parseIn.y, parseIn.mi, parseIn.d)

\* C12 for an explicit year of 1900
C12_Year1900Kept ==
  (parseOut.done /\ parseIn.kind = "listing" /\ parseIn.y = 1900
     /\ ValidDate(parseIn.y, parseIn.mi, parseIn.d)) =>
    parseOut.date = MkDate(parseIn.y, parseIn.mi, parseIn.d)

\* C12 for texts without a year, 29 Feb apart
C12_CurrentYearPutIn ==
  (parseOut.done /\ parseIn.kind = "listing" /\ parseIn.y = 0
     /\ ~(parseIn.mi = 2 /\ parseIn.d = 29)
     /\ ValidDate(today.y, parseIn.mi, parseIn.d)) =>
    parseOut.date = MkDate(today.y, parseIn.mi, parseIn.d)

\* C12 for "29 Feb" in a leap year
C12_LeapDayOfCurrentYear ==
  (parseOut.done /\ parseIn.kind = "listing" /\ parseIn.y = 0
     /\ parseIn.mi = 2 /\ parseIn.d = 29 /\ IsLeap(today.y)) =>
    parseOut.date = MkDate(today.y, 2, 29)
====
